---------------------------- MODULE Spec2Model ----------------------------
(***************************************************************************)
(* A model of tcpclient.c (tcpscaler): a libevent client that opens        *)
(* nb_conn TCP connections, sends a 31-byte length-prefixed DNS query on   *)
(* each of them at a fixed interval, parses length-prefixed responses out  *)
(* of the inbound byte stream and optionally prints one RTT per response.  *)
(*                                                                         *)
(* Connections are indexed 0 .. nb_conn-1 as in the C arrays bufevents[]   *)
(* and setups[].  A timespec is a record [tv_sec, tv_nsec], a timeval a    *)
(* record [tv_sec, tv_usec].  Buffers are sequences of bytes (0 .. 255).   *)
(***************************************************************************)
EXTENDS Integers, Sequences, FiniteSets, TLC

VARIABLES
  pc,             \* position of main(): "start", "ramp", "sched", "dispatch", "exited"
  exit_code,      \* return value of main() once pc = "exited", else -1
  nb_conn,        \* -c
  rate,           \* -r
  duration,       \* -t
  print_rtt,      \* -R
  write_interval, \* struct timeval write_interval
  conn,           \* loop index of the ramp loop and of the scheduling loop
  bufevents,      \* bufevents[i]: "garbage" (malloc), "NULL" or "bev"
  setups,         \* setups[i]: struct writecb_params
  data,           \* the static char data[] of writecb
  input,          \* input[i]: the bufferevent's input evbuffer
  output,         \* output[i]: the bufferevent's output evbuffer
  wire,           \* wire[i]: bytes the server has sent that have not arrived yet
  clock,          \* CLOCK_MONOTONIC
  setup_ev,       \* setup_ev[i]: the one-shot event running setup_writecb
  write_ev,       \* write_ev[i]: the EV_PERSIST event running writecb
  exit_ev,        \* the event_base_loopexit timeout
  rtt_out,        \* the lines printed on standard output, oldest first
  hist            \* history: what the last callbacks did (read by the properties only)

vars == <<pc, exit_code, nb_conn, rate, duration, print_rtt, write_interval, conn,
          bufevents, setups, data, input, output, wire, clock, setup_ev, write_ev,
          exit_ev, rtt_out, hist>>

---------------------------------------------------------------------------
(* Bounds of the model.                                                    *)

MaxConn == 2
MaxRate == 1
MaxDuration == 1
MaxSec == 1
MaxRand == 1
MaxSends == 3
MaxWire == 1
MaxRttSends == 3
MaxRttWire == 1
MaxFrames == 2
MaxLen == 4
MaxRoundTrips == 1
LogDepth == 10
MaxSchedRate == 7
MaxSchedRand == 2
MaxOrderSends == 2
MaxOrderWire == 2
MaxRingSends == 9
MaxRingTicks == 10
MaxLoopFrames == 3
MaxLoopLen == 2

(* Program constants.                                                      *)

MAX_QUERIES_IN_FLIGHT == 8
USEC_PER_SEC == 1000000
NSEC_PER_SEC == 1000000000
RAND_MAX == 2147483647
UINT16_MOD == 65536

Conns == 0 .. (MaxConn - 1)
Slots == 0 .. (MAX_QUERIES_IN_FLIGHT - 1)

---------------------------------------------------------------------------
(* Time.                                                                   *)

Timespec(s, n) == [tv_sec |-> s, tv_nsec |-> n]
Timeval(s, u) == [tv_sec |-> s, tv_usec |-> u]

\* The clock readings the model distinguishes: every second up to MaxSec at
\* nanosecond offsets that exercise the borrow and the microsecond truncation.
NsecGrid == {0, 999, 1000, 999999999}
ClockGrid == {Timespec(s, n) : s \in 0 .. MaxSec, n \in NsecGrid}
\* The readings used where only the order of timers matters.
CoarseGrid == {Timespec(s, n) : s \in 0 .. MaxSec, n \in {0, 999999999}}

TsLeq(a, b) ==
  (a.tv_sec < b.tv_sec) \/ (a.tv_sec = b.tv_sec /\ a.tv_nsec <= b.tv_nsec)

\* A timer set with timeout tv at clock reading t0 is due at reading t.
TimerDue(t0, tv, t) ==
  LET s == t0.tv_sec + tv.tv_sec + ((t0.tv_nsec + 1000 * tv.tv_usec) \div NSEC_PER_SEC)
      n == (t0.tv_nsec + 1000 * tv.tv_usec) % NSEC_PER_SEC
  IN  TsLeq(Timespec(s, n), t)

subtract_timespec_noborrow(a, b) ==
  IF TsLeq(a, b) THEN Timespec(0, 0)
  ELSE IF a.tv_nsec < b.tv_nsec
       THEN Timespec(a.tv_sec - b.tv_sec, a.tv_nsec + NSEC_PER_SEC - b.tv_nsec)
       ELSE Timespec(a.tv_sec - b.tv_sec, a.tv_nsec - b.tv_nsec)

subtract_timespec(a, b) ==
  IF (a.tv_sec < b.tv_sec) \/ (a.tv_sec = b.tv_sec /\ a.tv_nsec <= b.tv_nsec)
  THEN Timespec(0, 0)
  ELSE IF a.tv_nsec < b.tv_nsec
       THEN Timespec(a.tv_sec - b.tv_sec - 1, a.tv_nsec + NSEC_PER_SEC - b.tv_nsec)
       ELSE Timespec(a.tv_sec - b.tv_sec, a.tv_nsec - b.tv_nsec)

\* The value printf prints in readcb.
RttMicros(result) == (result.tv_nsec \div 1000) + (USEC_PER_SEC * result.tv_sec)

---------------------------------------------------------------------------
(* 16-bit fields in network byte order.                                    *)

HTONS_swapped(x) == <<x % 256, x \div 256>>

HTONS(x) == <<x \div 256, x % 256>>

NTOHS(b1, b2) == 256 * b1 + b2

\* The slot writecb stores the timestamp of query q in (line 148).
WriteSlot_next(q) == (q + 1) % MAX_QUERIES_IN_FLIGHT

WriteSlot(q) == q % MAX_QUERIES_IN_FLIGHT

\* The slot readcb reads for a response carrying query ID q (line 125).
ReadSlot_next(q) == (q + 1) % MAX_QUERIES_IN_FLIGHT

ReadSlot(q) == q % MAX_QUERIES_IN_FLIGHT

\* The increment, had query_id been wider than 16 bits.
NextQueryId_nowrap(q) == q + 1

\* The increment, had the counter skipped its last value.
NextQueryId_short(q) == (q + 1) % (UINT16_MOD - 1)

NextQueryId(q) == (q + 1) % UINT16_MOD

\* static char data[] as initialised at lines 137-144.
DataInit ==
  <<0, 29, 255, 255, 1, 0, 0, 1, 0, 0,
    0, 0, 0, 0, 7, 101, 120, 97,
    109, 112, 108, 101, 3, 99, 111, 109,
    0, 0, 1, 0, 1>>

---------------------------------------------------------------------------
(* main(): the write interval (lines 262-264) and the random initial       *)
(* offset of a connection's one-shot event (lines 377-379).                *)

WriteInterval_nofloor(c, r) ==
  LET usec == ((USEC_PER_SEC * c) \div r) % USEC_PER_SEC
  IN  Timeval(c \div r, usec)

\* The interval, had the division been rate by connections.
WriteInterval_inverse(c, r) ==
  LET usec == ((USEC_PER_SEC * r) \div c) % USEC_PER_SEC
  IN  Timeval(r \div c, IF usec > 0 THEN usec ELSE 1)

WriteInterval(c, r) ==
  LET usec == ((USEC_PER_SEC * c) \div r) % USEC_PER_SEC
  IN  Timeval(c \div r, IF usec > 0 THEN usec ELSE 1)

InitialTimeout_wide(rnd, interval) ==
  LET rand_usec == rnd % (USEC_PER_SEC * interval.tv_sec + interval.tv_usec + 2)
  IN  Timeval(rand_usec \div USEC_PER_SEC, rand_usec % USEC_PER_SEC)

InitialTimeout(rnd, interval) ==
  LET rand_usec == rnd % (USEC_PER_SEC * interval.tv_sec + interval.tv_usec + 1)
  IN  Timeval(rand_usec \div USEC_PER_SEC, rand_usec % USEC_PER_SEC)

\* What random() can return.
RandomValues == (0 .. MaxRand) \cup {RAND_MAX - i : i \in 0 .. MaxRand}

---------------------------------------------------------------------------
(* readcb's loop (lines 98-128) on the content of the input evbuffer.      *)
(* The result is what is left in the buffer and, for each message drained, *)
(* its length field and the query ID read at line 108, in order.           *)

\* The number of bytes evbuffer_drain removes for a message (line 119).
DrainLen_header(dns_len) == dns_len + 4

\* The drain, had it left out the 2 bytes of the length field.
DrainLen_body(dns_len) == dns_len

DrainLen(dns_len) == dns_len + 2

\* The short read test of line 100.
MinHeader == 4

\* The test of line 111: the message is not complete yet.
Incomplete_body(input_len, dns_len) == input_len < dns_len

Incomplete(input_len, dns_len) == input_len < dns_len + 2

\* readcb without its loop: at most one message is drained.
ReadLoop_once(buf, acc) ==
  IF Len(buf) < MinHeader \/ Incomplete(Len(buf), NTOHS(buf[1], buf[2]))
  THEN [rest |-> buf, frames |-> acc]
  ELSE [rest |-> SubSeq(buf, DrainLen(NTOHS(buf[1], buf[2])) + 1, Len(buf)),
        frames |-> Append(acc, [dns_len |-> NTOHS(buf[1], buf[2]),
                                query_id |-> NTOHS(buf[3], buf[4])])]

RECURSIVE ReadLoop(_, _)
ReadLoop(buf, acc) ==
  IF Len(buf) < MinHeader
  THEN [rest |-> buf, frames |-> acc]
  ELSE LET dns_len == NTOHS(buf[1], buf[2])
           query_id == NTOHS(buf[3], buf[4])
       IN  IF Incomplete(Len(buf), dns_len)
           THEN [rest |-> buf, frames |-> acc]
           ELSE ReadLoop(SubSeq(buf, DrainLen(dns_len) + 1, Len(buf)),
                         Append(acc, [dns_len |-> dns_len, query_id |-> query_id]))

\* The timestamp readcb reads at line 125; a slot no writecb has written holds
\* whatever malloc left there (garbage).
SlotValue(ring, q, garbage) ==
  IF ring[ReadSlot(q)].written THEN ring[ReadSlot(q)].ts ELSE garbage

\* What malloc'ed, never written memory may hold as a struct timespec.
GarbageTimes == {Timespec(0, 0), Timespec(77, 123456789), Timespec(-5, 5)}

\* The line printed for one drained message (lines 123-126).
RttLine(ring, q, now, garbage) ==
  RttMicros(subtract_timespec(now, SlotValue(ring, q, garbage)))

\* readcb, had it printed without testing print_rtt.
RttLines_unguarded(enabled, ring, frames, now, garbage) ==
  [j \in 1 .. Len(frames) |-> RttLine(ring, frames[j].query_id, now, garbage)]

\* The lines one call of readcb prints (lines 122-127), one for each message
\* it drains, when print_rtt is set.
RttLines(enabled, ring, frames, now, garbage) ==
  IF enabled
  THEN [j \in 1 .. Len(frames) |-> RttLine(ring, frames[j].query_id, now, garbage)]
  ELSE <<>>

\* The slots of the ring that call reads (line 125).
SlotsRead(enabled, frames) ==
  IF enabled THEN [j \in 1 .. Len(frames) |-> ReadSlot(frames[j].query_id)] ELSE <<>>

---------------------------------------------------------------------------
(* State of the program.                                                   *)

NoEvent == [state |-> "none", set_at |-> Timespec(0, 0), timeout |-> Timeval(0, 0)]
Pending(t0, tv) == [state |-> "pending", set_at |-> t0, timeout |-> tv]
Fired == [NoEvent EXCEPT !.state = "fired"]

EmptyRing == [s \in Slots |-> [written |-> FALSE, ts |-> Timespec(0, 0)]]

\* setups[i] as malloc leaves it (line 346): nothing in it is initialised.
SetupsMalloc ==
  [init |-> FALSE, interval |-> Timeval(0, 0), query_id |-> 0, query_timestamps |-> EmptyRing]

NoCallback ==
  [op |-> "none", c |-> 0, qid |-> 0, frame |-> <<>>, before |-> <<>>,
   prev_input |-> <<>>, pre_input |-> <<>>, frames |-> <<>>, rtts |-> <<>>,
   uninit_read |-> FALSE, slots |-> <<>>, iters |-> 0, now |-> Timespec(0, 0)]

\* trace says whether the details of the last callback are kept in last, and
\* with them the number of bytes that arrived on each connection (arrived)
\* and the messages readcb has drained from it, in order (decoded).
HistNew(trace) ==
  [trace |-> trace, attempted |-> {}, errored |-> {}, sends |-> [c \in Conns |-> 0],
   nsends |-> 0, setup_fires |-> [c \in Conns |-> 0], served |-> 0,
   sent_log |-> [c \in Conns |-> <<>>], sends_after_error |-> {},
   arrived |-> [c \in Conns |-> 0], decoded |-> [c \in Conns |-> <<>>],
   last |-> NoCallback]

Record(h, l) == IF h.trace THEN [h EXCEPT !.last = l] ELSE h

\* n more bytes have arrived on connection c.
Arrive(h, c, n) == IF h.trace THEN [h EXCEPT !.arrived[c] = @ + n] ELSE h

\* readcb has drained these messages from connection c at time now, after
\* the connection's first h.sends[c] sends.
Decode(h, c, frames, now) ==
  IF h.trace
  THEN [h EXCEPT !.decoded[c] =
          @ \o [j \in 1 .. Len(frames) |->
                  [dns_len |-> frames[j].dns_len, query_id |-> frames[j].query_id,
                   at |-> now, nsent |-> h.sends[c]]]]
  ELSE h

\* The last LogDepth sends of a connection, oldest first.
LogSend(log, q, now) ==
  LET l == Append(log, [id |-> q, ts |-> now])
  IN  IF Len(l) > LogDepth THEN Tail(l) ELSE l

Rates == (0 .. MaxRate) \cup {USEC_PER_SEC}

Init ==
  /\ pc = "start"
  /\ exit_code = -1
  /\ nb_conn \in 0 .. MaxConn
  /\ rate \in Rates
  /\ duration \in 0 .. MaxDuration
  /\ print_rtt \in BOOLEAN
  /\ write_interval = Timeval(0, 0)
  /\ conn = 0
  /\ bufevents = [c \in Conns |-> "garbage"]
  /\ setups = [c \in Conns |-> SetupsMalloc]
  /\ data = DataInit
  /\ input = [c \in Conns |-> <<>>]
  /\ output = [c \in Conns |-> <<>>]
  /\ wire = [c \in Conns |-> <<>>]
  /\ clock = Timespec(0, 0)
  /\ setup_ev = [c \in Conns |-> NoEvent]
  /\ write_ev = [c \in Conns |-> NoEvent]
  /\ exit_ev = NoEvent
  /\ rtt_out = <<>>
  /\ hist = HistNew(FALSE)

---------------------------------------------------------------------------
(* main() up to the ramp loop (lines 255-346).                             *)

\* Lines 255-259: the mandatory arguments.
ArgsOk == rate # 0 /\ nb_conn # 0

\* reachable: getaddrinfo, the probing connect and event_base_new succeeded.
MainStart(reachable) ==
  /\ pc = "start"
  /\ IF ArgsOk /\ reachable
     THEN /\ write_interval' = WriteInterval(nb_conn, rate)
          /\ exit_ev' = IF duration > 0 THEN Pending(clock, Timeval(duration, 0)) ELSE NoEvent
          /\ pc' = "ramp"
          /\ exit_code' = exit_code
     ELSE /\ pc' = "exited"
          /\ exit_code' = 1
          /\ UNCHANGED <<write_interval, exit_ev>>
  /\ UNCHANGED <<nb_conn, rate, duration, print_rtt, conn, bufevents, setups, data,
                 input, output, wire, clock, setup_ev, write_ev, rtt_out, hist>>

(* The ramp loop (lines 347-371): one iteration.  outcome says whether      *)
(* bufferevent_socket_new fails, bufferevent_socket_connect fails, or both  *)
(* succeed; t is the clock reading after usleep.                            *)
RampAttempt(outcome, t) ==
  /\ pc = "ramp"
  /\ conn < nb_conn
  /\ TsLeq(clock, t)
  /\ hist' = [hist EXCEPT !.attempted = @ \cup {conn}]
  /\ IF outcome = "ok"
     THEN /\ bufevents' = [bufevents EXCEPT ![conn] = "bev"]
          /\ conn' = conn + 1
          /\ clock' = t
          /\ pc' = pc
     ELSE /\ bufevents' = [bufevents EXCEPT ![conn] = "NULL"]
          /\ conn' = 0
          /\ clock' = clock
          /\ pc' = "sched"
  /\ UNCHANGED <<exit_code, nb_conn, rate, duration, print_rtt, write_interval, setups,
                 data, input, output, wire, setup_ev, write_ev, exit_ev, rtt_out>>

\* The ramp loop ends because conn = nb_conn.
RampExit ==
  /\ pc = "ramp"
  /\ ~(conn < nb_conn)
  /\ pc' = "sched"
  /\ conn' = 0
  /\ UNCHANGED <<exit_code, nb_conn, rate, duration, print_rtt, write_interval,
                 bufevents, setups, data, input, output, wire, clock, setup_ev,
                 write_ev, exit_ev, rtt_out, hist>>

\* The condition of the scheduling loop (line 375).
SchedCond_all == conn < nb_conn

SchedCond == conn < nb_conn /\ bufevents[conn] # "NULL"

(* The scheduling loop (lines 375-389): one iteration; rnd is random().     *)
SchedStep(rnd) ==
  /\ pc = "sched"
  /\ SchedCond
  /\ setups' = [setups EXCEPT ![conn] =
                  [@ EXCEPT !.init = TRUE, !.interval = write_interval, !.query_id = 0]]
  /\ setup_ev' = [setup_ev EXCEPT ![conn] =
                    Pending(clock, InitialTimeout(rnd, write_interval))]
  /\ conn' = conn + 1
  /\ UNCHANGED <<pc, exit_code, nb_conn, rate, duration, print_rtt, write_interval,
                 bufevents, data, input, output, wire, clock, write_ev, exit_ev,
                 rtt_out, hist>>

\* The scheduling loop ends; event_base_dispatch is entered (line 392).
SchedExit ==
  /\ pc = "sched"
  /\ ~SchedCond
  /\ pc' = "dispatch"
  /\ UNCHANGED <<exit_code, nb_conn, rate, duration, print_rtt, write_interval, conn,
                 bufevents, setups, data, input, output, wire, clock, setup_ev,
                 write_ev, exit_ev, rtt_out, hist>>

---------------------------------------------------------------------------
(* The callbacks run by event_base_dispatch.                               *)

Running == pc = "dispatch"

(* writecb (lines 131-151) on connection c; h is the history to extend.    *)
(* data is static: the query ID written by the previous call stays in it.  *)
writecb(c, h) ==
  LET q == setups[c].query_id
      d == [i \in 1 .. Len(data) |->
              IF i = 3 THEN HTONS(q)[1] ELSE IF i = 4 THEN HTONS(q)[2] ELSE data[i]]
  IN  /\ data' = d
      /\ setups' = [setups EXCEPT
                      ![c].query_timestamps[WriteSlot(q)] = [written |-> TRUE, ts |-> clock],
                      ![c].query_id = NextQueryId(q)]
      /\ output' = [output EXCEPT ![c] = @ \o d]
      /\ hist' = Record([h EXCEPT
                            !.sends[c] = @ + 1,
                            !.nsends = @ + 1,
                            !.sent_log[c] = LogSend(@, q, clock),
                            !.sends_after_error = IF c \in h.errored THEN @ \cup {c} ELSE @],
                         [NoCallback EXCEPT !.op = "writecb", !.c = c, !.qid = q,
                                            !.frame = d, !.before = output[c],
                                            !.now = clock])

\* setup_writecb, had it left the first send to the periodic event.
SetupWritecb_nosend(c) ==
  /\ Running
  /\ setup_ev[c].state = "pending"
  /\ TimerDue(setup_ev[c].set_at, setup_ev[c].timeout, clock)
  /\ setup_ev' = [setup_ev EXCEPT ![c] = Fired]
  /\ write_ev' = [write_ev EXCEPT ![c] = Pending(clock, setups[c].interval)]
  /\ hist' = [hist EXCEPT !.setup_fires[c] = @ + 1]
  /\ UNCHANGED <<pc, exit_code, nb_conn, rate, duration, print_rtt, write_interval, conn,
                 bufevents, setups, data, input, output, wire, clock, exit_ev, rtt_out>>

(* setup_writecb (lines 160-174): the one-shot event of connection c fires. *)
(* event_add is taken to succeed (it fails only when memory is exhausted).  *)
SetupWritecb(c) ==
  /\ Running
  /\ setup_ev[c].state = "pending"
  /\ TimerDue(setup_ev[c].set_at, setup_ev[c].timeout, clock)
  /\ setup_ev' = [setup_ev EXCEPT ![c] = Fired]
  /\ write_ev' = [write_ev EXCEPT ![c] = Pending(clock, setups[c].interval)]
  /\ writecb(c, [hist EXCEPT !.setup_fires[c] = @ + 1])
  /\ UNCHANGED <<pc, exit_code, nb_conn, rate, duration, print_rtt, write_interval, conn,
                 bufevents, input, wire, clock, exit_ev, rtt_out>>

(* The EV_PERSIST event of connection c fires: writecb, and the event is    *)
(* scheduled again one interval later.                                      *)
WriteTimer(c) ==
  /\ Running
  /\ write_ev[c].state = "pending"
  /\ TimerDue(write_ev[c].set_at, write_ev[c].timeout, clock)
  /\ write_ev' = [write_ev EXCEPT ![c] = Pending(clock, @.timeout)]
  /\ writecb(c, hist)
  /\ UNCHANGED <<pc, exit_code, nb_conn, rate, duration, print_rtt, write_interval, conn,
                 bufevents, input, wire, clock, setup_ev, exit_ev, rtt_out>>

\* Whether readcb, printing RTTs for these messages, reads a slot never written.
ReadsUninit(ring, frames) ==
  \E j \in 1 .. Len(frames) : ~ring[ReadSlot(frames[j].query_id)].written

(* A read event on connection c: the bufferevent moves k bytes from the     *)
(* socket to the input buffer and runs readcb (lines 86-129).               *)
ReadEvent(c, k) ==
  /\ Running
  /\ bufevents[c] = "bev"
  /\ k \in 1 .. Len(wire[c])
  /\ LET buf == input[c] \o SubSeq(wire[c], 1, k)
         r == ReadLoop(buf, <<>>)
         ring == setups[c].query_timestamps
         uninit == print_rtt /\ ReadsUninit(ring, r.frames)
     IN  \E g \in IF uninit THEN GarbageTimes ELSE {Timespec(0, 0)} :
           LET rtts == RttLines(print_rtt, ring, r.frames, clock, g)
           IN  /\ input' = [input EXCEPT ![c] = r.rest]
               /\ wire' = [wire EXCEPT ![c] = SubSeq(@, k + 1, Len(@))]
               /\ rtt_out' = rtt_out \o rtts
               /\ hist' = Record(Decode(hist, c, r.frames, clock),
                             [NoCallback EXCEPT !.op = "readcb", !.c = c,
                                                !.prev_input = input[c], !.pre_input = buf,
                                                !.frames = r.frames, !.rtts = rtts,
                                                !.uninit_read = uninit,
                                                !.slots = SlotsRead(print_rtt, r.frames),
                                                !.now = clock])
  /\ UNCHANGED <<pc, exit_code, nb_conn, rate, duration, print_rtt, write_interval, conn,
                 bufevents, setups, data, output, clock, setup_ev, write_ev, exit_ev>>

\* eventcb, had it cancelled the connection's timers on an error.
Eventcb_failing(c, events) ==
  /\ Running
  /\ bufevents[c] = "bev"
  /\ hist' = Record([hist EXCEPT !.errored = IF events = "ERROR" THEN @ \cup {c} ELSE @],
                     [NoCallback EXCEPT !.op = "eventcb", !.c = c])
  /\ setup_ev' = IF events = "ERROR" THEN [setup_ev EXCEPT ![c] = Fired] ELSE setup_ev
  /\ write_ev' = IF events = "ERROR" THEN [write_ev EXCEPT ![c] = NoEvent] ELSE write_ev
  /\ UNCHANGED <<pc, exit_code, nb_conn, rate, duration, print_rtt, write_interval, conn,
                 bufevents, setups, data, input, output, wire, clock, exit_ev, rtt_out>>

(* readcb one iteration of its loop at a time.  ReadBegin: a read event on *)
(* connection c moves k bytes from the socket to the input buffer and       *)
(* readcb is entered (lines 86-96).                                         *)
ReadBegin(c, k) ==
  /\ Running
  /\ bufevents[c] = "bev"
  /\ k \in 1 .. Len(wire[c])
  /\ input' = [input EXCEPT ![c] = @ \o SubSeq(wire[c], 1, k)]
  /\ wire' = [wire EXCEPT ![c] = SubSeq(@, k + 1, Len(@))]
  /\ pc' = "readcb"
  /\ hist' = Record(hist, [NoCallback EXCEPT !.op = "readcb_running", !.c = c,
                                             !.prev_input = input[c],
                                             !.pre_input = input'[c], !.now = clock])
  /\ UNCHANGED <<exit_code, nb_conn, rate, duration, print_rtt, write_interval, conn,
                 bufevents, setups, data, output, clock, setup_ev, write_ev, exit_ev,
                 rtt_out>>

(* One iteration of the loop of readcb (lines 98-128) on connection c: it   *)
(* returns to the event loop (lines 100-105 and 111-116) or drains one      *)
(* message and prints its RTT (lines 119-127).                              *)
ReadIter(c) ==
  /\ pc = "readcb"
  /\ hist.last.c = c
  /\ LET buf == input[c]
         l == hist.last
         dns_len == NTOHS(buf[1], buf[2])
         query_id == NTOHS(buf[3], buf[4])
         frame == <<[dns_len |-> dns_len, query_id |-> query_id]>>
         ring == setups[c].query_timestamps
     IN  IF Len(buf) < MinHeader \/ Incomplete(Len(buf), dns_len)
         THEN /\ pc' = "dispatch"
              /\ hist' = Record(hist, [l EXCEPT !.op = "readcb", !.iters = @ + 1])
              /\ UNCHANGED <<input, rtt_out>>
         ELSE \E g \in IF print_rtt /\ ReadsUninit(ring, frame)
                        THEN GarbageTimes ELSE {Timespec(0, 0)} :
                /\ input' = [input EXCEPT ![c] = SubSeq(buf, DrainLen(dns_len) + 1, Len(buf))]
                /\ rtt_out' = rtt_out \o RttLines(print_rtt, ring, frame, clock, g)
                /\ pc' = pc
                /\ hist' = Record(Decode(hist, c, frame, clock),
                              [l EXCEPT !.iters = @ + 1,
                                        !.frames = @ \o frame,
                                        !.rtts = @ \o RttLines(print_rtt, ring, frame, clock, g),
                                        !.slots = @ \o SlotsRead(print_rtt, frame),
                                        !.uninit_read = @ \/ (print_rtt /\ ReadsUninit(ring, frame))])
  /\ UNCHANGED <<exit_code, nb_conn, rate, duration, print_rtt, write_interval, conn,
                 bufevents, setups, data, output, wire, clock, setup_ev, write_ev,
                 exit_ev>>

(* eventcb (lines 176-181): events is what the bufferevent reports.  The    *)
(* callback prints the error and changes nothing of the program's state.    *)
Eventcb(c, events) ==
  /\ Running
  /\ bufevents[c] = "bev"
  /\ hist' = Record([hist EXCEPT !.errored = IF events = "ERROR" THEN @ \cup {c} ELSE @],
                     [NoCallback EXCEPT !.op = "eventcb", !.c = c])
  /\ UNCHANGED <<pc, exit_code, nb_conn, rate, duration, print_rtt, write_interval, conn,
                 bufevents, setups, data, input, output, wire, clock, setup_ev, write_ev,
                 exit_ev, rtt_out>>

\* The loop, had it returned only once no timer was left.
LoopExit_idle ==
  /\ Running
  /\ exit_ev.state = "pending"
  /\ TimerDue(exit_ev.set_at, exit_ev.timeout, clock)
  /\ \A c \in Conns : setup_ev[c].state # "pending" /\ write_ev[c].state # "pending"
  /\ exit_ev' = Fired
  /\ pc' = "exited"
  /\ exit_code' = 0
  /\ UNCHANGED <<nb_conn, rate, duration, print_rtt, write_interval, conn, bufevents,
                 setups, data, input, output, wire, clock, setup_ev, write_ev, rtt_out,
                 hist>>

(* The loopexit timeout set at line 341 fires: event_base_dispatch returns, *)
(* everything is freed and main returns 0 (lines 394-403).                  *)
LoopExit ==
  /\ Running
  /\ exit_ev.state = "pending"
  /\ TimerDue(exit_ev.set_at, exit_ev.timeout, clock)
  /\ exit_ev' = Fired
  /\ pc' = "exited"
  /\ exit_code' = 0
  /\ UNCHANGED <<nb_conn, rate, duration, print_rtt, write_interval, conn, bufevents,
                 setups, data, input, output, wire, clock, setup_ev, write_ev, rtt_out,
                 hist>>

(* event_base_dispatch returns at once when no event is registered: no      *)
(* connection was opened and no loopexit timeout was set.                   *)
DispatchNoEvents ==
  /\ Running
  /\ exit_ev.state = "none"
  /\ \A c \in Conns : bufevents[c] # "bev"
  /\ pc' = "exited"
  /\ exit_code' = 0
  /\ UNCHANGED <<nb_conn, rate, duration, print_rtt, write_interval, conn, bufevents,
                 setups, data, input, output, wire, clock, setup_ev, write_ev, exit_ev,
                 rtt_out, hist>>

---------------------------------------------------------------------------
(* The environment: the clock, the transport and the server.               *)

\* Time passes while the loop waits.
Tick(t) ==
  /\ Running
  /\ t \in ClockGrid
  /\ TsLeq(clock, t) /\ t # clock
  /\ clock' = t
  /\ UNCHANGED <<pc, exit_code, nb_conn, rate, duration, print_rtt, write_interval, conn,
                 bufevents, setups, data, input, output, wire, setup_ev, write_ev,
                 exit_ev, rtt_out, hist>>

\* Time passes while the loop waits: ns nanoseconds, less than a second.
Elapse(ns) ==
  /\ Running
  /\ ns \in 1 .. (NSEC_PER_SEC - 1)
  /\ clock' = Timespec(clock.tv_sec + ((clock.tv_nsec + ns) \div NSEC_PER_SEC),
                       (clock.tv_nsec + ns) % NSEC_PER_SEC)
  /\ UNCHANGED <<pc, exit_code, nb_conn, rate, duration, print_rtt, write_interval, conn,
                 bufevents, setups, data, input, output, wire, setup_ev, write_ev,
                 exit_ev, rtt_out, hist>>

\* The bufferevent writes the output buffer to the socket; reflected says
\* whether the server is an echo server, which sends the bytes back unchanged.
Flush(c, reflected) ==
  /\ Running
  /\ bufevents[c] = "bev"
  /\ output[c] # <<>>
  /\ output' = [output EXCEPT ![c] = <<>>]
  /\ wire' = [wire EXCEPT ![c] = IF reflected THEN @ \o output[c] ELSE @]
  /\ hist' = IF reflected THEN Arrive(hist, c, Len(output[c])) ELSE hist
  /\ UNCHANGED <<pc, exit_code, nb_conn, rate, duration, print_rtt, write_interval, conn,
                 bufevents, setups, data, input, clock, setup_ev, write_ev,
                 exit_ev, rtt_out>>

\* A message with length field len whose body starts with the 16-bit id and
\* continues with zero bytes; a body shorter than 2 bytes holds what fits of the id.
Message(len, id) ==
  HTONS(len) \o SubSeq(HTONS(id) \o [i \in 1 .. len |-> 0], 1, len)

\* The server sends bytes on connection c.
ServerSend(c, bytes) ==
  /\ Running
  /\ bufevents[c] = "bev"
  /\ wire' = [wire EXCEPT ![c] = @ \o bytes]
  /\ hist' = Arrive([hist EXCEPT !.served = @ + 1], c, Len(bytes))
  /\ UNCHANGED <<pc, exit_code, nb_conn, rate, duration, print_rtt, write_interval, conn,
                 bufevents, setups, data, input, output, clock, setup_ev, write_ev,
                 exit_ev, rtt_out>>

---------------------------------------------------------------------------
(* The whole program, with at most MaxSends sends by the periodic events   *)
(* and at most MaxWire responses of the server.                            *)

Outcomes == {"ok", "new_failed", "connect_failed"}
BevEvents == {"CONNECTED", "ERROR", "EOF"}

\* The responses of the server: the 4-byte echo of a query ID.
Responses == {Message(2, q) : q \in 0 .. MaxWire}

Next ==
  \/ \E reachable \in BOOLEAN : MainStart(reachable)
  \/ \E o \in Outcomes, t \in CoarseGrid : RampAttempt(o, t)
  \/ RampExit
  \/ \E rnd \in RandomValues : SchedStep(rnd)
  \/ SchedExit
  \/ \E c \in Conns : SetupWritecb(c)
  \/ \E c \in Conns : hist.nsends < MaxSends /\ WriteTimer(c)
  \/ \E c \in Conns : ReadEvent(c, Len(wire[c]))
  \/ \E c \in Conns, e \in BevEvents : hist.errored = {} /\ Eventcb(c, e)
  \/ \E c \in Conns, m \in Responses : hist.served < MaxWire /\ ServerSend(c, m)
  \/ \E t \in CoarseGrid : Tick(t)
  \/ LoopExit
  \/ DispatchNoEvents

Spec == Init /\ [][Next]_vars

(* main runs to event_base_dispatch without waiting for anything but        *)
(* usleep, time passes, and the loop runs the loopexit timeout once due.    *)
MainStep ==
  \/ \E reachable \in BOOLEAN : MainStart(reachable)
  \/ \E o \in Outcomes, t \in CoarseGrid : RampAttempt(o, t)
  \/ RampExit
  \/ \E rnd \in RandomValues : SchedStep(rnd)
  \/ SchedExit

FairSpec ==
  /\ Init /\ [][Next]_vars
  /\ WF_vars(MainStep)
  /\ WF_vars(\E t \in CoarseGrid : Tick(t))
  /\ WF_vars(LoopExit)

---------------------------------------------------------------------------
(* One established connection.  The specifications below start in the      *)
(* event loop with connection 0 open and scheduled (-c 1 -r 1000000, so    *)
(* one send every microsecond, no -t) at q0 microseconds, after it has     *)
(* sent q0 queries, query i at i microseconds, and before it sends query   *)
(* q0: a state the program is in after q0 sends.                           *)

SentAt(i) == Timespec(0, 1000 * i)

\* The ring after queries 0 .. q0-1 were sent.
\* The first of the last depth queries before query q0.
FirstOfLast(depth, q0) == IF q0 > depth THEN q0 - depth ELSE 0

RingAfter(q0) ==
  LET recent == FirstOfLast(MAX_QUERIES_IN_FLIGHT, q0) .. (q0 - 1)
  IN  [s \in Slots |->
         IF \E i \in recent : WriteSlot(i) = s
         THEN [written |-> TRUE, ts |-> SentAt(CHOOSE i \in recent : WriteSlot(i) = s)]
         ELSE [written |-> FALSE, ts |-> Timespec(0, 0)]]

LogAfter(q0) ==
  [j \in 1 .. (q0 - FirstOfLast(LogDepth, q0)) |->
     [id |-> FirstOfLast(LogDepth, q0) + j - 1,
      ts |-> SentAt(FirstOfLast(LogDepth, q0) + j - 1)]]

Established(q0, rtt) ==
  LET interval == WriteInterval(1, USEC_PER_SEC)
      now == SentAt(q0)
  IN
  /\ pc = "dispatch"
  /\ exit_code = -1
  /\ nb_conn = 1
  /\ rate = USEC_PER_SEC
  /\ duration = 0
  /\ print_rtt = rtt
  /\ write_interval = interval
  /\ conn = 1
  /\ bufevents = [c \in Conns |-> IF c = 0 THEN "bev" ELSE "garbage"]
  /\ setups = [c \in Conns |->
                 IF c = 0
                 THEN [init |-> TRUE, interval |-> interval, query_id |-> q0,
                       query_timestamps |-> RingAfter(q0)]
                 ELSE SetupsMalloc]
  /\ data = IF q0 = 0 THEN DataInit
            ELSE [i \in 1 .. Len(DataInit) |->
                    IF i = 3 THEN HTONS(q0 - 1)[1]
                    ELSE IF i = 4 THEN HTONS(q0 - 1)[2] ELSE DataInit[i]]
  /\ input = [c \in Conns |-> <<>>]
  /\ output = [c \in Conns |-> <<>>]
  /\ wire = [c \in Conns |-> <<>>]
  /\ clock = now
  /\ setup_ev = [c \in Conns |->
                   IF c # 0 THEN NoEvent
                   ELSE IF q0 = 0 THEN Pending(now, Timeval(0, 0)) ELSE Fired]
  /\ write_ev = [c \in Conns |->
                   IF c = 0 /\ q0 > 0 THEN Pending(SentAt(q0 - 1), interval) ELSE NoEvent]
  /\ exit_ev = NoEvent
  /\ rtt_out = <<>>
  /\ hist = [HistNew(TRUE) EXCEPT !.attempted = {0},
                                  !.sends[0] = q0,
                                  !.setup_fires[0] = IF q0 = 0 THEN 0 ELSE 1,
                                  !.sent_log[0] = LogAfter(q0)]

---------------------------------------------------------------------------
(* The decoder on arbitrarily segmented streams: the server sends up to    *)
(* MaxFrames messages with length fields 0 .. MaxLen, and every read event *)
(* delivers any non-empty part of what is on the wire.                     *)

CodecIds == {0, 1, 258, 65535}
CodecMessages == {Message(len, id) : len \in 0 .. MaxLen, id \in CodecIds}

InitCodec == \E rtt \in BOOLEAN : Established(0, rtt)

NextCodec ==
  \/ \E m \in CodecMessages : hist.served < MaxFrames /\ ServerSend(0, m)
  \/ \E k \in 1 .. Len(wire[0]) : ReadEvent(0, k)

SpecCodec == InitCodec /\ [][NextCodec]_vars

(* The round trip through an echo server, for every query ID: the          *)
(* connection sends one query, the server reflects it, one read event      *)
(* delivers the reflection.                                                *)

InitRoundTrip == \E q0 \in 0 .. (UINT16_MOD - 1) : Established(q0, FALSE)

NextRoundTrip ==
  \/ SetupWritecb(0)
  \/ hist.nsends < MaxRoundTrips /\ WriteTimer(0)
  \/ Flush(0, TRUE)
  \/ ReadEvent(0, Len(wire[0]))

SpecRoundTrip == InitRoundTrip /\ [][NextRoundTrip]_vars

(* Sends, responses and the clock on one connection, from its first query  *)
(* and across the wrap of the query ID: at most MaxRttSends further sends  *)
(* and MaxRttWire responses, each the echo of a logged or of the next ID.  *)

RttStarts == {0, UINT16_MOD - 2}

RttResponses ==
  {Message(2, hist.sent_log[0][i].id) : i \in 1 .. Len(hist.sent_log[0])}
    \cup {Message(2, setups[0].query_id)}

InitRtt == \E q0 \in RttStarts, rtt \in BOOLEAN : Established(q0, rtt)

NextRtt ==
  \/ SetupWritecb(0)
  \/ hist.nsends < MaxRttSends /\ WriteTimer(0)
  \/ \E m \in RttResponses : hist.served < MaxRttWire /\ ServerSend(0, m)
  \/ ReadEvent(0, Len(wire[0]))
  \/ \E t \in ClockGrid : Tick(t)

SpecRtt == InitRtt /\ [][NextRtt]_vars

(* Several responses on one connection, arbitrarily segmented, between     *)
(* its sends and with RTT reporting on or off: at most MaxOrderSends sends  *)
(* by the periodic event and MaxOrderWire responses.                        *)

InitOrder == \E rtt \in BOOLEAN : Established(0, rtt)

NextOrder ==
  \/ SetupWritecb(0)
  \/ hist.nsends < MaxOrderSends /\ WriteTimer(0)
  \/ \E m \in RttResponses : hist.served < MaxOrderWire /\ ServerSend(0, m)
  \/ \E k \in 1 .. Len(wire[0]) : ReadEvent(0, k)
  \/ \E t \in CoarseGrid : Tick(t)

SpecOrder == InitOrder /\ [][NextOrder]_vars

(* A long run of sends on one connection, from its first query and across *)
(* the wrap of the query ID: at most MaxRingSends sends, one microsecond    *)
(* apart or more, within MaxRingTicks microseconds.                         *)

RingStarts == {0, UINT16_MOD - 6}

\* The microseconds elapsed since the start of the run.
RingTicks == (clock.tv_nsec \div 1000) - (hist.sends[0] - hist.nsends)

InitRing == \E q0 \in RingStarts : Established(q0, FALSE)

NextRing ==
  \/ SetupWritecb(0)
  \/ hist.nsends < MaxRingSends /\ WriteTimer(0)
  \/ RingTicks < MaxRingTicks /\ Elapse(1000)

SpecRing == InitRing /\ [][NextRing]_vars

(* readcb iteration by iteration on streams of up to MaxLoopFrames          *)
(* messages with length fields 0 .. MaxLoopLen, arbitrarily segmented.      *)
(* readcb is sequential code: once entered, it takes its next iteration.    *)

LoopMessages == {Message(len, 258) : len \in 0 .. MaxLoopLen}

InitLoop == \E rtt \in BOOLEAN : Established(0, rtt)

NextLoop ==
  \/ \E m \in LoopMessages : hist.served < MaxLoopFrames /\ ServerSend(0, m)
  \/ \E k \in 1 .. Len(wire[0]) : ReadBegin(0, k)
  \/ ReadIter(0)

SpecLoop == InitLoop /\ [][NextLoop]_vars /\ WF_vars(ReadIter(0))

(* The start of main() up to the event loop, for more rates.               *)

SchedRates == (1 .. MaxSchedRate) \cup {USEC_PER_SEC, 3 * USEC_PER_SEC}

InitSched ==
  /\ pc = "start"
  /\ exit_code = -1
  /\ nb_conn \in 1 .. MaxConn
  /\ rate \in SchedRates
  /\ duration = 0
  /\ print_rtt = FALSE
  /\ write_interval = Timeval(0, 0)
  /\ conn = 0
  /\ bufevents = [c \in Conns |-> "garbage"]
  /\ setups = [c \in Conns |-> SetupsMalloc]
  /\ data = DataInit
  /\ input = [c \in Conns |-> <<>>]
  /\ output = [c \in Conns |-> <<>>]
  /\ wire = [c \in Conns |-> <<>>]
  /\ clock = Timespec(0, 0)
  /\ setup_ev = [c \in Conns |-> NoEvent]
  /\ write_ev = [c \in Conns |-> NoEvent]
  /\ exit_ev = NoEvent
  /\ rtt_out = <<>>
  /\ hist = HistNew(FALSE)

\* random() in the scheduling scenario: the smallest and the largest values.
SchedRandoms == (0 .. MaxSchedRand) \cup {RAND_MAX - i : i \in 0 .. MaxSchedRand}

NextSched ==
  \/ MainStart(TRUE)
  \/ \E o \in Outcomes : RampAttempt(o, clock)
  \/ RampExit
  \/ \E rnd \in SchedRandoms : SchedStep(rnd)
  \/ SchedExit

SpecSched == InitSched /\ [][NextSched]_vars

---------------------------------------------------------------------------
(* Properties.                                                             *)

IsStrictPrefix(p, q) == Len(p) < Len(q) /\ p = SubSeq(q, 1, Len(p))

Yield(len, id) == [dns_len |-> len, query_id |-> id]

(* C1: partial delivery.  For every message F that carries an identifier   *)
(* (length field L >= 2): when readcb runs on a buffer that holds only the *)
(* first k < L+2 bytes of F it yields no frame and consumes nothing; when  *)
(* the buffer held such a part and the rest of F has arrived, readcb       *)
(* yields exactly one frame, with F's identifier, and consumes L+2 bytes.  *)
C1_PartialDelivery ==
  hist.last.op = "readcb" =>
    \A len \in 2 .. MaxLen, id \in CodecIds :
      LET F == Message(len, id)
          l == hist.last
      IN  /\ IsStrictPrefix(l.pre_input, F) =>
               l.frames = <<>> /\ input[l.c] = l.pre_input
          /\ (IsStrictPrefix(l.prev_input, F) /\ l.pre_input = F) =>
               /\ l.frames = <<Yield(len, id)>>
               /\ Len(l.pre_input) - Len(input[l.c]) = len + 2

\* A message completed by a read event after readcb had left its first bytes,
\* header included, in the buffer.
C1_Witness ==
  /\ hist.last.op = "readcb"
  /\ \E len \in 3 .. MaxLen, id \in CodecIds :
       /\ Len(hist.last.prev_input) >= MinHeader
       /\ IsStrictPrefix(hist.last.prev_input, Message(len, id))
       /\ hist.last.pre_input = Message(len, id)
       /\ hist.last.frames = <<Yield(len, id)>>
       /\ input[0] = <<>>

(* C2: frame coalescing.  When the buffer holds exactly two complete       *)
(* messages as readcb runs, that one call yields the two frames in buffer  *)
(* order and leaves the buffer empty.                                      *)
C2_Coalescing ==
  hist.last.op = "readcb" =>
    \A len1 \in 2 .. MaxLen, len2 \in 2 .. MaxLen, id1 \in CodecIds, id2 \in CodecIds :
      hist.last.pre_input = Message(len1, id1) \o Message(len2, id2) =>
        /\ hist.last.frames = <<Yield(len1, id1), Yield(len2, id2)>>
        /\ input[hist.last.c] = <<>>

C2_Witness ==
  /\ hist.last.op = "readcb"
  /\ hist.last.pre_input = Message(2, 258) \o Message(3, 65535)
  /\ hist.last.frames = <<Yield(2, 258), Yield(3, 65535)>>
  /\ input[0] = <<>>

(* C3: round trip.  For every query ID, when readcb runs on exactly the    *)
(* bytes writecb appended for it, it yields one frame, with that ID, and   *)
(* consumes the 31 bytes.                                                  *)
C3_RoundTrip ==
  (hist.last.op = "readcb" /\ hist.last.pre_input = data) =>
    LET log == hist.sent_log[0]
    IN  /\ Len(hist.last.frames) = 1
        /\ hist.last.frames[1].query_id = log[Len(log)].id
        /\ Len(hist.last.pre_input) - Len(input[0]) = 31
        /\ input[0] = <<>>

C3_Witness ==
  /\ hist.last.op = "readcb"
  /\ hist.last.pre_input = data
  /\ hist.last.frames = <<Yield(29, 43981)>>
  /\ hist.sent_log[0][Len(hist.sent_log[0])].id = 43981

\* Bytes 4-30 of every query: what follows the query ID in data[].
FixedPayload ==
  <<1, 0, 0, 1, 0, 0, 0, 0, 0, 0, 7, 101, 120, 97, 109, 112, 108, 101, 3, 99, 111,
    109, 0, 0, 1, 0, 1>>

\* The bytes a step appends to the output buffer of connection c.
Appended(c) == SubSeq(output'[c], Len(output[c]) + 1, Len(output'[c]))

(* C4: every send tick of a connection appends exactly one 31-byte frame   *)
(* to that connection's output buffer and to no other: the big-endian      *)
(* length 29 (the bytes after the length field), the big-endian query ID   *)
(* the connection had before the tick, then the fixed payload.             *)
C4_SendAppendsFrame ==
  [][\A c \in Conns :
       hist'.sends[c] = hist.sends[c] + 1 =>
         /\ output'[c] = output[c] \o Appended(c)
         /\ Len(Appended(c)) = 31
         /\ Appended(c)[1] = 0 /\ Appended(c)[2] = 29
         /\ Appended(c)[2] = Len(Appended(c)) - 2
         /\ Appended(c)[3] = setups[c].query_id \div 256
         /\ Appended(c)[4] = setups[c].query_id % 256
         /\ SubSeq(Appended(c), 5, 31) = FixedPayload
         /\ \A d \in Conns \ {c} : output'[d] = output[d]]_vars

\* Connection 0 has sent queries 0 and 1, and connection 1 then sent its
\* query 0 from the static buffer that still held query ID 1.
C4_Witness ==
  /\ hist.sends[0] = 2 /\ hist.sends[1] = 1
  /\ hist.sent_log[0][2].ts = Timespec(0, 999999999)
  /\ hist.sent_log[1][1].ts = Timespec(1, 0)
  /\ Len(output[0]) = 62 /\ Len(output[1]) = 31
  /\ output[0][34] = 0 /\ output[0][35] = 1
  /\ output[1][3] = 0 /\ output[1][4] = 0

\* The elapsed time from s to t in whole microseconds.
TrueMicros(t, s) ==
  ((t.tv_sec - s.tv_sec) * USEC_PER_SEC) + ((t.tv_nsec - s.tv_nsec) \div 1000)

\* The position in log of the last send of query ID q (0: none).
LastSendOf(log, q) ==
  IF \E i \in 1 .. Len(log) : log[i].id = q
  THEN CHOOSE i \in 1 .. Len(log) :
         log[i].id = q /\ \A j \in (i + 1) .. Len(log) : log[j].id # q
  ELSE 0

\* The number of sends of the connection after the one at position i of log.
FurtherSends(log, i) == Len(log) - i

(* C5: with RTT reporting on, the RTT printed for a response whose query q *)
(* was sent at most 7 sends ago on the connection is the time from the     *)
(* moment recorded at that send to the moment of the decode, in whole      *)
(* microseconds; also across the wrap of the query ID.                     *)
C5_RttWithinWindow ==
  (hist.last.op = "readcb" /\ print_rtt) =>
    LET l == hist.last
        log == hist.sent_log[l.c]
    IN  /\ Len(l.rtts) = Len(l.frames)
        /\ \A j \in 1 .. Len(l.frames) :
             LET i == LastSendOf(log, l.frames[j].query_id)
             IN  (i > 0 /\ FurtherSends(log, i) <= 7) =>
                   l.rtts[j] = TrueMicros(l.now, log[i].ts)

\* Query 65529 answered after exactly 7 further sends, the last three of
\* them (65534, 65535, 0) across the wrap.
C5_Witness ==
  /\ hist.last.op = "readcb" /\ print_rtt
  /\ hist.last.frames = <<Yield(2, 65529)>>
  /\ setups[0].query_id = 1
  /\ FurtherSends(hist.sent_log[0], LastSendOf(hist.sent_log[0], 65529)) = 7
  /\ hist.last.rtts[1] > USEC_PER_SEC

\* The connections that were given a one-shot send timer.
Scheduled == {c \in Conns : setup_ev[c].state # "none"}

\* The 1-indexed attempts made so far.
Attempts == {c + 1 : c \in hist.attempted}

(* C6: ramp fail-fast.  If the k-th connection attempt is the first to     *)
(* fail, attempts 1 .. k and no other were made, the ramp loop is left,    *)
(* only connections among the k-1 earlier ones ever get a send timer, all  *)
(* k-1 of them have one when the event loop starts, and main does not      *)
(* return an error.                                                        *)
C6_RampFailFast ==
  \A k \in 1 .. MaxConn :
    bufevents[k - 1] = "NULL" =>
      /\ Attempts = 1 .. k
      /\ \A i \in 0 .. (k - 2) : bufevents[i] = "bev"
      /\ pc \in {"sched", "dispatch", "exited"}
      /\ Scheduled \subseteq 0 .. (k - 2)
      /\ pc \in {"dispatch", "exited"} => Scheduled = 0 .. (k - 2)
      /\ exit_code \in {-1, 0}

\* The second of two attempts failed (at either call) and the first
\* connection, the only one scheduled, has sent.
C6_Witness ==
  /\ nb_conn = 2
  /\ bufevents[1] = "NULL"
  /\ pc = "dispatch"
  /\ Scheduled = {0}
  /\ hist.sends[0] > 0

\* main has computed the write interval.
IntervalComputed == pc \in {"ramp", "sched", "dispatch"}

\* The fraction of a second in C/R, in whole microseconds, rounded down.
FracFloor(C, R) == (USEC_PER_SEC * (C % R)) \div R

\* The same fraction rounded up.
FracCeil(C, R) == FracFloor(C, R) + (IF (USEC_PER_SEC * (C % R)) % R = 0 THEN 0 ELSE 1)

ClampUsec(u) == IF u = 0 THEN 1 ELSE u

(* C7 as stated: the microsecond part of the write interval is the         *)
(* fraction rounded up.                                                     *)
C7_CeilInterval ==
  IntervalComputed =>
    /\ write_interval.tv_sec = nb_conn \div rate
    /\ write_interval.tv_usec = ClampUsec(FracCeil(nb_conn, rate))

(* C7: for C >= 1 connections and rate R >= 1 the write interval is        *)
(* floor(C/R) seconds plus the fraction of C/R in microseconds rounded      *)
(* down, or 1 microsecond where that is 0; the interval is never zero, a    *)
(* normalised timeval, and the one every scheduled connection is given.     *)
C7_WriteInterval ==
  IntervalComputed =>
    /\ nb_conn >= 1 /\ rate >= 1
    /\ write_interval.tv_sec = nb_conn \div rate
    /\ write_interval.tv_usec = ClampUsec(FracFloor(nb_conn, rate))
    /\ write_interval.tv_usec \in 1 .. (USEC_PER_SEC - 1)
    /\ USEC_PER_SEC * write_interval.tv_sec + write_interval.tv_usec > 0
    /\ \A c \in Scheduled : setups[c].interval = write_interval

\* One connection at 3 sends a second is scheduled with 333333 us, where
\* rounding up gives 333334.
C7_Witness ==
  /\ pc = "dispatch"
  /\ Scheduled # {}
  /\ nb_conn = 1 /\ rate = 3
  /\ write_interval = Timeval(0, 333333)

\* The events whose one-shot timer is waiting, with delay and interval in us.
DelayUsec(c) == USEC_PER_SEC * setup_ev[c].timeout.tv_sec + setup_ev[c].timeout.tv_usec
IntervalUsec(c) == USEC_PER_SEC * setups[c].interval.tv_sec + setups[c].interval.tv_usec
Waiting == {c \in Conns : setup_ev[c].state = "pending"}

(* C8 as stated: the initial delay lies in [0, interval).                   *)
C8_DelayBelowInterval ==
  \A c \in Waiting : 0 <= DelayUsec(c) /\ DelayUsec(c) < IntervalUsec(c)

(* C8: the initial delay of every scheduled connection lies in the closed  *)
(* range [0, interval], as a normalised timeval, whatever random() returns. *)
C8_DelayWithinInterval ==
  \A c \in Waiting :
    /\ 0 <= DelayUsec(c) /\ DelayUsec(c) <= IntervalUsec(c)
    /\ setup_ev[c].timeout.tv_sec >= 0
    /\ setup_ev[c].timeout.tv_usec \in 0 .. (USEC_PER_SEC - 1)

\* A delay equal to the interval, and one of a whole second and more.
C8_Witness ==
  /\ pc = "dispatch"
  /\ \E c \in Waiting : DelayUsec(c) = IntervalUsec(c)
  /\ \E c \in Waiting : DelayUsec(c) > 0 /\ DelayUsec(c) < IntervalUsec(c)

\* A send by connection c in this step.
Sends(c) == hist'.sends[c] = hist.sends[c] + 1

C10_DurationCutoff ==
  /\ (pc = "ramp" /\ duration > 0) ~> (pc = "exited" /\ exit_code = 0)
  /\ [][pc = "dispatch" /\ pc' = "exited" /\ duration > 0 =>
          clock.tv_sec >= duration /\ exit_code' = 0]_vars
  /\ [][pc = "exited" =>
          UNCHANGED <<pc, exit_code, output, rtt_out, setups, data>>]_vars
  /\ [](duration = 0 => exit_ev.state = "none")

\* The loop has ended on the loopexit timeout while a send timer was
\* pending, a request was unanswered and a response was not yet read.
C10_Witness ==
  /\ pc = "exited" /\ exit_code = 0
  /\ duration > 0
  /\ exit_ev.state = "fired"
  /\ \E c \in Conns :
       /\ write_ev[c].state = "pending"
       /\ output[c] # <<>>
       /\ wire[c] # <<>>

\* The sum of the L+2 bytes of the messages in frames.
RECURSIVE FrameBytes(_)
FrameBytes(frames) ==
  IF frames = <<>> THEN 0 ELSE frames[1].dns_len + 2 + FrameBytes(Tail(frames))

\* The bytes readcb has consumed from connection c so far.
Consumed(c) == hist.arrived[c] - Len(wire[c]) - Len(input[c])

(* C11: with RTT reporting on, the values printed so far are one for each  *)
(* message decoded so far, in the order of decoding within and across read  *)
(* events: the value of a message whose query had been sent is the time     *)
(* from that send to its decoding.  With reporting off nothing is printed   *)
(* and no slot is read.  Either way exactly the bytes of the decoded        *)
(* messages were consumed.                                                  *)
C11_RttPerFrame ==
  LET d == hist.decoded[0]
      l == hist.last
  IN  /\ Consumed(0) = FrameBytes(d)
      /\ l.op = "readcb" =>
           Len(l.pre_input) - Len(input[0]) = FrameBytes(l.frames)
      /\ print_rtt =>
           /\ Len(rtt_out) = Len(d)
           /\ \A j \in 1 .. Len(d) :
                LET log == SubSeq(hist.sent_log[0], 1, d[j].nsent)
                    i == LastSendOf(log, d[j].query_id)
                IN  i > 0 => rtt_out[j] = TrueMicros(d[j].at, log[i].ts)
           /\ l.op = "readcb" =>
                /\ Len(l.slots) = Len(l.frames)
                /\ \A j \in 1 .. Len(l.frames) : l.slots[j] = l.frames[j].query_id % 8
      /\ ~print_rtt =>
           /\ rtt_out = <<>>
           /\ l.slots = <<>>

\* One read event has decoded the responses to queries 1 and 0, in that
\* order, and their two different RTTs were printed in that order.
C11_Witness ==
  /\ print_rtt
  /\ hist.last.op = "readcb"
  /\ hist.last.frames = <<Yield(2, 1), Yield(2, 0)>>
  /\ Len(rtt_out) = 2
  /\ rtt_out[1] < rtt_out[2]
  /\ rtt_out[1] > 0

\* The write interval in microseconds.
WriteIntervalUsec == USEC_PER_SEC * write_interval.tv_sec + write_interval.tv_usec

(* C12: for C >= 1 connections and rate R >= 1 the write interval in       *)
(* microseconds is positive and differs from 1,000,000*C/R by at most one   *)
(* microsecond: |interval*R - 1,000,000*C| <= R.                            *)
C12_RateApproximation ==
  IntervalComputed =>
    /\ WriteIntervalUsec > 0
    /\ WriteIntervalUsec * rate - USEC_PER_SEC * nb_conn <= rate
    /\ USEC_PER_SEC * nb_conn - WriteIntervalUsec * rate <= rate

\* Two connections at one send a second: the exact interval is 2 s, the
\* computed one 2 s and 1 us, the largest deviation.
C12_Witness ==
  /\ pc = "dispatch"
  /\ nb_conn = 2 /\ rate = 1
  /\ WriteIntervalUsec = 2000001
  /\ WriteIntervalUsec * rate - USEC_PER_SEC * nb_conn = rate

\* The ring of connection 0 and the query ID of its first send in this run.
Ring == setups[0].query_timestamps
FirstId == hist.sends[0] - hist.nsends

(* C13: the identifier of a connection starts at 0 and every send tick     *)
(* writes the current identifier q into the frame, stores the clock in      *)
(* slot q mod 8 and in no other slot, and adds 1 modulo 65536 to the        *)
(* identifier; so the n-th frame of the connection carries (n-1) mod 65536. *)
C13_SendSequence ==
  /\ [](/\ hist.sends[0] = 0 => setups[0].query_id = 0
        /\ setups[0].query_id = hist.sends[0] % 65536
        /\ Len(output[0]) = 31 * hist.nsends
        /\ \A j \in 1 .. hist.nsends :
             LET n == FirstId + j
             IN  /\ output[0][31 * (j - 1) + 3] = ((n - 1) % 65536) \div 256
                 /\ output[0][31 * (j - 1) + 4] = ((n - 1) % 65536) % 256)
  /\ [][Sends(0) =>
          LET q == setups[0].query_id
          IN  /\ output'[0][Len(output[0]) + 3] = q \div 256
              /\ output'[0][Len(output[0]) + 4] = q % 256
              /\ setups'[0].query_timestamps[q % 8] = [written |-> TRUE, ts |-> clock]
              /\ \A s \in Slots \ {q % 8} :
                   setups'[0].query_timestamps[s] = Ring[s]
              /\ setups'[0].query_id = (q + 1) % 65536]_vars

\* The 65537th frame of a connection, six sends into the run, carries
\* identifier 0, and the identifier is then 1.
C13_Witness ==
  /\ hist.sends[0] = 65537
  /\ hist.nsends = 7
  /\ setups[0].query_id = 1
  /\ output[0][31 * 6 + 3] = 0 /\ output[0][31 * 6 + 4] = 0
  /\ output[0][31 * 5 + 3] = 255 /\ output[0][31 * 5 + 4] = 255

\* The slot the latest send of connection 0 wrote, by the identifier it carried.
LatestSlot == hist.sent_log[0][Len(hist.sent_log[0])].id % 8

(* C16: consecutive sends of a connection write consecutive slots modulo   *)
(* 8, each the slot of the identifier the frame carries, also from          *)
(* identifier 65535 (slot 7) to identifier 0 (slot 0); so the slot written  *)
(* for an identifier holds that send's timestamp during the next 7 sends    *)
(* and is overwritten by the 8th following send (and every 8th after it).   *)
C16_SlotContinuity ==
  /\ [](LET log == hist.sent_log[0]
        IN  \A i \in 1 .. Len(log) :
              /\ FurtherSends(log, i) < 8 => Ring[log[i].id % 8].ts = log[i].ts
              /\ FurtherSends(log, i) >= 8 =>
                   /\ Ring[log[i].id % 8].ts = log[i + (8 * (FurtherSends(log, i) \div 8))].ts
                   /\ log[i + 8].ts # log[i].ts
              /\ i < Len(log) => log[i + 1].id % 8 = ((log[i].id % 8) + 1) % 8)
  /\ [][(Sends(0) /\ hist.sends[0] > 0) =>
          LET s == (LatestSlot + 1) % 8
          IN  /\ setups'[0].query_timestamps[s] = [written |-> TRUE, ts |-> clock]
              /\ (output'[0][Len(output[0]) + 3] * 256
                    + output'[0][Len(output[0]) + 4]) % 8 = s
              /\ setups[0].query_id % 8 = s
              /\ LatestSlot = 7 => setups[0].query_id % 8 = 0]_vars

\* Nine sends from identifier 65530: identifier 65535 went to slot 7, the
\* next send carried 0 to slot 0, and the slot written for 65530 at the start
\* was overwritten by the ninth send, which carried 2.
C16_Witness ==
  /\ hist.sends[0] = 65539
  /\ hist.nsends = 9
  /\ LET log == hist.sent_log[0]
     IN  /\ log[Len(log)].id = 2
         /\ \E i \in 1 .. (Len(log) - 1) : log[i].id = 65535 /\ log[i + 1].id = 0
         /\ log[Len(log) - 8].id = 65530
         /\ Ring[2].ts = log[Len(log)].ts
         /\ Ring[2].ts # log[Len(log) - 8].ts

\* The number of times the persistent timer of connection c has fired.
PersistentFires(c) == hist.sends[c] - hist.setup_fires[c]

(* C14: two-phase scheduling.  When the event loop starts, the connections *)
(* opened by the ramp are those with a one-shot timer.  A connection has    *)
(* sent nothing before its one-shot timer has fired; the one-shot fires at  *)
(* most once, sends exactly once and installs the persistent timer with the *)
(* write interval; after that only the persistent timer fires, each time    *)
(* for exactly one send and another period, also on a connection that has   *)
(* reported an error.                                                       *)
C14_TwoPhase ==
  /\ [](/\ pc = "dispatch" =>
             \A c \in Conns : (c < nb_conn /\ bufevents[c] = "bev") <=> c \in Scheduled
        /\ \A c \in Conns :
             /\ hist.setup_fires[c] \in {0, 1}
             /\ hist.setup_fires[c] = 0 =>
                  /\ hist.sends[c] = 0
                  /\ output[c] = <<>>
                  /\ write_ev[c].state = "none"
             /\ hist.setup_fires[c] = 1 <=> setup_ev[c].state = "fired"
             /\ hist.setup_fires[c] = 1 =>
                  /\ write_ev[c].state = "pending"
                  /\ write_ev[c].timeout = write_interval
                  /\ hist.sends[c] >= 1
             /\ Len(output[c]) = 31 * hist.sends[c])
  /\ [][\A c \in Conns :
          /\ hist'.setup_fires[c] # hist.setup_fires[c] =>
               /\ setup_ev[c].state = "pending" /\ setup_ev'[c].state = "fired"
               /\ write_ev[c].state = "none" /\ write_ev'[c].state = "pending"
               /\ hist'.sends[c] = hist.sends[c] + 1
          /\ write_ev'[c] # write_ev[c] =>
               /\ hist'.sends[c] = hist.sends[c] + 1
               /\ write_ev'[c].timeout = write_interval
               /\ write_ev'[c].set_at = clock
          /\ hist'.sends[c] # hist.sends[c] =>
               \/ hist'.setup_fires[c] = hist.setup_fires[c] + 1
               \/ /\ write_ev[c].state = "pending"
                  /\ write_ev'[c].state = "pending"
                  /\ setup_ev'[c] = setup_ev[c]]_vars

\* Connection 0 has sent from its one-shot timer and twice from its
\* persistent timer, the last time after it had reported an error, while
\* connection 1 still waits for its one-shot timer.
C14_Witness ==
  /\ pc = "dispatch"
  /\ hist.setup_fires[0] = 1 /\ PersistentFires(0) = 2
  /\ 0 \in hist.sends_after_error
  /\ setup_ev[1].state = "pending" /\ hist.sends[1] = 0
  /\ write_ev[0].state = "pending" /\ write_ev[1].state = "none"

\* The length field at the head of a buffer of 2 bytes or more.
HeadLength(buf) == 256 * buf[1] + buf[2]

(* C15: whatever the segmentation of the arrivals and the read events, the *)
(* bytes consumed from a connection are the sum of L_i + 2 over the         *)
(* messages decoded so far, a read event consumes the L + 2 bytes of each   *)
(* message it decodes and nothing else, and the buffer readcb leaves holds  *)
(* fewer than 4 bytes or fewer than the L + 2 bytes its head announces.     *)
C15_DrainPostcondition ==
  LET l == hist.last
      buf == input[0]
  IN  /\ hist.arrived[0] - Len(wire[0]) - Len(buf) = FrameBytes(hist.decoded[0])
      /\ Len(buf) < 4 \/ Len(buf) < HeadLength(buf) + 2
      /\ l.op = "readcb" =>
           /\ Len(l.pre_input) = FrameBytes(l.frames) + Len(buf)
           /\ buf = SubSeq(l.pre_input, FrameBytes(l.frames) + 1, Len(l.pre_input))

\* Two read events have delivered a message and 5 bytes of the next, a
\* message of 6: the first is decoded, the 5 bytes are left.
C15_Witness ==
  /\ hist.last.op = "readcb"
  /\ Len(hist.decoded[0]) = 1
  /\ hist.last.frames = <<>>
  /\ Len(input[0]) = 5
  /\ HeadLength(input[0]) = 4
  /\ hist.arrived[0] = FrameBytes(hist.decoded[0]) + 6

\* The position in log of the last send whose query ID is congruent to q
\* modulo 8 (0: none).
LastCongruentSend(log, q) ==
  IF \E i \in 1 .. Len(log) : log[i].id % 8 = q % 8
  THEN CHOOSE i \in 1 .. Len(log) :
         log[i].id % 8 = q % 8 /\ \A j \in (i + 1) .. Len(log) : log[j].id % 8 # q % 8
  ELSE 0

(* C17: with RTT reporting on, the RTT printed for a response whose query  *)
(* q was sent on the connection is not negative and not greater than the    *)
(* time from that send to the decoding, however many sends followed; after  *)
(* 8 or more further sends it is the time since the most recent send whose  *)
(* query ID is congruent to q modulo 8.                                     *)
C17_OverrunUnderEstimates ==
  (hist.last.op = "readcb" /\ print_rtt) =>
    LET l == hist.last
        log == hist.sent_log[l.c]
    IN  \A j \in 1 .. Len(l.frames) :
          LET q == l.frames[j].query_id
              i == LastSendOf(log, q)
              k == LastCongruentSend(log, q)
          IN  i > 0 =>
                /\ l.rtts[j] >= 0
                /\ l.rtts[j] <= TrueMicros(l.now, log[i].ts)
                /\ FurtherSends(log, i) >= 8 =>
                     /\ k > i
                     /\ l.rtts[j] = TrueMicros(l.now, log[k].ts)

\* A response to a query that 8 sends or more have followed: the RTT
\* printed is positive and smaller than the time since that query was sent.
C17_Witness ==
  /\ hist.last.op = "readcb" /\ print_rtt
  /\ Len(hist.last.frames) = 1
  /\ LET log == hist.sent_log[0]
         i == LastSendOf(log, hist.last.frames[1].query_id)
     IN  /\ i > 0
         /\ FurtherSends(log, i) >= 8
         /\ hist.nsends > 0
         /\ hist.last.rtts[1] > 0
         /\ hist.last.rtts[1] < TrueMicros(hist.last.now, log[i].ts)

(* C18: the two identifier bytes readcb reads for a message, the third and *)
(* fourth byte of the buffer, lie within the L + 2 bytes it drains for that *)
(* message, for every inbound stream, messages with L = 0 or 1 included.    *)
C18_IdentifierInsideFrame ==
  hist.last.op = "readcb" =>
    \A j \in 1 .. Len(hist.last.frames) : hist.last.frames[j].dns_len + 2 >= 4

(* C19: with RTT reporting on, every slot readcb reads has been written by *)
(* a send of the same connection before.                                    *)
C19_SlotWrittenBeforeRead ==
  (hist.last.op = "readcb" /\ print_rtt) =>
    \A j \in 1 .. Len(hist.last.slots) :
      setups[hist.last.c].query_timestamps[hist.last.slots[j]].written

\* When readcb returns, its iterations have done what ReadLoop computes.
LoopAgreesWithReadLoop ==
  (pc = "dispatch" /\ hist.last.op = "readcb") =>
    LET r == ReadLoop(hist.last.pre_input, <<>>)
    IN  /\ input[hist.last.c] = r.rest
        /\ hist.last.frames = r.frames
        /\ hist.last.iters = Len(r.frames) + 1

(* C20: one call of readcb terminates for every finite content of the      *)
(* input buffer: control returns to the event loop, every iteration that    *)
(* does not return consumes at least 2 bytes, and the call takes at most    *)
(* half the buffered length plus one iterations.                            *)
C20_LoopTerminates ==
  /\ (pc = "readcb") ~> (pc = "dispatch" /\ hist.last.op = "readcb")
  /\ []((pc = "readcb" \/ hist.last.op = "readcb") =>
          /\ 2 * hist.last.iters <= Len(hist.last.pre_input) - Len(input[hist.last.c])
                                      + (IF pc = "readcb" THEN 0 ELSE 2)
          /\ hist.last.iters <= (Len(hist.last.pre_input) \div 2) + 1)
  /\ [][(pc = "readcb" /\ pc' = "readcb") =>
          Len(input'[hist.last.c]) <= Len(input[hist.last.c]) - 2]_vars

\* A call on six zero bytes, three messages with length field 0, has
\* returned after three iterations: two drained 2 bytes each and the third
\* found 2 bytes, fewer than a header.
C20_Witness ==
  /\ pc = "dispatch"
  /\ hist.last.op = "readcb"
  /\ hist.last.pre_input = <<0, 0, 0, 0, 0, 0>>
  /\ hist.last.iters = 3
  /\ Len(hist.last.frames) = 2
  /\ Len(input[0]) = 2

===========================================================================
